---------------------------- MODULE Spec2Model ----------------------------
(* PresidioSummarizer (presidio_analyzer/presidio_summarizer.py):          *)
(*   summarize_pii  = normalise -> merge_entities -> merge_consecutive_... *)
(*   summarize_pii_batch = per-group, per-category score rollup            *)
(* Strings are sequences of one-character strings; explanation strings are *)
(* sequences of tokens in which the separator ' and ' is one token. Scores *)
(* are exact rationals [num, den] in lowest terms.                         *)
EXTENDS Integers, Sequences, FiniteSets, TLC

(***************************************************************************)
(* Bounds of the model                                                     *)
(***************************************************************************)
\* longest list of raw detections handed to summarize_pii
MaxLen == 3
\* most detections in one summarize_pii_batch call, over all groups
MaxHits == 4

(***************************************************************************)
(* Input alphabets                                                         *)
(***************************************************************************)
Texts == {<<"a", " ", "b">>}
EntityTypes == {"PERSON", "LOCATION"}
Half == [num |-> 1, den |-> 2]
NineTenths == [num |-> 9, den |-> 10]
SEP == " and "
\* the explanation tokens in Python's string order (' ' sorts before letters)
TokenOrder == <<SEP, "by NER", "by regex">>
\* a recognizer reports its own fixed confidence and explanation
Recognizers ==
    {[score |-> NineTenths, textual_explanation |-> <<"by NER">>],
     [score |-> Half, textual_explanation |-> <<"by regex">>]}
\* the groups of a batch and the values of a group
Keys == <<"name", "city">>
Values == <<"Joe", "Rome">>

(***************************************************************************)
(* Optional values: None, or a value wrapped in a 1-tuple                  *)
(***************************************************************************)
None == <<>>
Some(x) == <<x>>

(***************************************************************************)
(* Exact rational arithmetic for the float scores                          *)
(***************************************************************************)
RECURSIVE Gcd(_, _)
Gcd(a, b) == IF b = 0 THEN a ELSE Gcd(b, a % b)

Rat(n, d) == LET g == Gcd(n, d) IN [num |-> n \div g, den |-> d \div g]

Zero == Rat(0, 1)

RatAdd(a, b) == Rat(a.num * b.den + b.num * a.den, a.den * b.den)

RatDiv(a, k) == Rat(a.num, a.den * k)

RatGt(a, b) == a.num * b.den > b.num * a.den

(***************************************************************************)
(* Strings                                                                 *)
(***************************************************************************)
IsSpace(c) == c = " "

RECURSIVE LStrip(_)
LStrip(s) == IF s # <<>> /\ IsSpace(Head(s)) THEN LStrip(Tail(s)) ELSE s

RECURSIVE RStrip(_)
RStrip(s) ==
    IF s # <<>> /\ IsSpace(s[Len(s)]) THEN RStrip(SubSeq(s, 1, Len(s) - 1)) ELSE s

\* str.strip()
Strip(s) == RStrip(LStrip(s))

\* text[start:end] for 0 <= start <= end
Slice(t, start, end) ==
    SubSeq(t, start + 1, IF end > Len(t) THEN Len(t) ELSE end)

Rank(tok) == CHOOSE k \in 1..Len(TokenOrder) : TokenOrder[k] = tok

\* a < b on strings (lexicographic, a proper prefix is smaller)
RECURSIVE StrLess(_, _)
StrLess(a, b) ==
    IF b = <<>> THEN FALSE
    ELSE IF a = <<>> THEN TRUE
    ELSE IF Head(a) # Head(b) THEN Rank(Head(a)) < Rank(Head(b))
    ELSE StrLess(Tail(a), Tail(b))

\* sorted(set_of_strings)
RECURSIVE SortedStrings(_)
SortedStrings(S) ==
    IF S = {} THEN <<>>
    ELSE LET m == CHOOSE x \in S : \A y \in S \ {x} : StrLess(x, y)
         IN  <<m>> \o SortedStrings(S \ {m})

\* ' and '.join(list_of_strings)
RECURSIVE Join(_)
Join(l) ==
    IF l = <<>> THEN <<>>
    ELSE IF Len(l) = 1 THEN l[1]
    ELSE l[1] \o <<SEP>> \o Join(Tail(l))

\* set(s.split(' and '))
RECURSIVE SplitSet(_, _)
SplitSet(s, acc) ==
    IF s = <<>> THEN {acc}
    ELSE IF Head(s) = SEP THEN {acc} \cup SplitSet(Tail(s), <<>>)
    ELSE SplitSet(Tail(s), Append(acc, Head(s)))

(***************************************************************************)
(* State                                                                   *)
(***************************************************************************)
VARIABLES
    pc,                     \* position in summarize_pii / summarize_pii_batch
    text,                   \* summarize_pii: the source text
    presidio_results,       \* summarize_pii: the raw detections
    word_predictions,       \* summarize_pii: the normalised detections
    flattened_predictions,  \* merge_entities: the sorted records
    pos,                    \* merge_entities: 1-based index of the for loop
    current_word, current_start, current_end,
    current_type, current_score, current_explanation,
    merged_entities,        \* merge_entities: the output list
    folded,                 \* history: per cluster opened, the records folded in
    current_entity,         \* merge_consecutive_entities: the running entry
    scan,                   \* merge_consecutive_entities: 1-based loop index
    final_entities,         \* merge_consecutive_entities: the output list
    batch_results,          \* summarize_pii_batch: the groups
    item,                   \* summarize_pii_batch: 1-based index of the group
    hit,                    \* summarize_pii_batch: index into the group's hits
    pii_scores,             \* summarize_pii_batch: type -> total_score, count
    pii_explanations,       \* summarize_pii_batch: type -> set of explanations
    output                  \* summarize_pii_batch: the output list

inputVars == <<text, presidio_results>>

sweepVars == <<flattened_predictions, pos, current_word, current_start,
               current_end, current_type, current_score, current_explanation,
               folded>>

consVars == <<current_entity, scan, final_entities>>

batchVars == <<batch_results, item, hit, pii_scores, pii_explanations, output>>

vars == <<pc, inputVars, word_predictions, sweepVars, merged_entities,
          consVars, batchVars>>

(***************************************************************************)
(* Inputs                                                                  *)
(***************************************************************************)
SeqsUpTo(S, n) == UNION {[1..k -> S] : k \in 0..n}

\* raw detections of a text: well-formed spans 0 <= start < end <= len(text)
RawResults(t) ==
    {[start |-> s, end |-> e, entity_type |-> ty, score |-> rc.score,
      analysis_explanation |->
          [textual_explanation |-> rc.textual_explanation]] :
        s \in {x \in 0..Len(t) : x < Len(t)}, e \in 1..Len(t),
        ty \in EntityTypes, rc \in Recognizers}

WellFormed(t) == {r \in RawResults(t) : r.start < r.end}

(***************************************************************************)
(* summarize_pii, lines 111-121: one prediction per raw detection          *)
(***************************************************************************)
WordPrediction(result, t) ==
    [word |-> Strip(Slice(t, result.start, result.end)),
     start |-> result.start,
     end |-> result.end,
     entity_type |-> result.entity_type,
     score |-> result.score,
     analysis_explanation |-> result.analysis_explanation]

WordPredictions(results, t) ==
    [k \in 1..Len(results) |-> WordPrediction(results[k], t)]

(***************************************************************************)
(* merge_entities                                                          *)
(***************************************************************************)
\* lines 17-25
Flatten(predictions) ==
    [k \in 1..Len(predictions) |->
        [word |-> predictions[k].word,
         start |-> predictions[k].start,
         end |-> predictions[k].end,
         type |-> predictions[k].entity_type,
         score |-> predictions[k].score,
         explanation |-> predictions[k].analysis_explanation.textual_explanation]]

\* the list left in input order: no key ever precedes another
KeyLessUnsorted(a, b) == FALSE

\* line 27: the key (start, -score) of a precedes that of b
KeyLess(a, b) ==
    \/ a.start < b.start
    \/ a.start = b.start /\ RatGt(a.score, b.score)

\* insert x after every element whose key is not greater (stable)
RECURSIVE InsertSorted(_, _)
InsertSorted(l, x) ==
    IF l = <<>> THEN <<x>>
    ELSE IF KeyLess(x, Head(l)) THEN <<x>> \o l
    ELSE <<Head(l)>> \o InsertSorted(Tail(l), x)

\* line 27: list.sort is stable
RECURSIVE SortPredictions(_)
SortPredictions(l) ==
    IF l = <<>> THEN <<>>
    ELSE InsertSorted(SortPredictions(SubSeq(l, 1, Len(l) - 1)), l[Len(l)])

\* line 46
Overlaps(entity, cur_end) == entity.start < cur_end

\* a tie replaces the cluster's end, type and score too
OutscoresOrTies(entity, cur_score) == ~RatGt(cur_score, entity.score)

\* line 47
Outscores(entity, cur_score) == RatGt(entity.score, cur_score)

\* lines 54-62 and 71-79: the closed cluster
Closed(c) ==
    [word |-> c.current_word[1],
     start |-> c.current_start,
     end |-> c.current_end,
     type |-> c.current_type,
     score |-> c.current_score,
     explanation |-> Join(SortedStrings(c.current_explanation))]

\* lines 39-44 and 63-68: a cluster opened from one record
Opened(c, entity) ==
    [c EXCEPT !.current_word = Some(entity.word),
              !.current_start = entity.start,
              !.current_end = entity.end,
              !.current_type = entity.type,
              !.current_score = entity.score,
              !.current_explanation = {entity.explanation}]

\* lines 29-35: the loop's locals before the first iteration
SweepInit ==
    [current_word |-> None, current_start |-> None, current_end |-> None,
     current_type |-> None, current_score |-> Zero, current_explanation |-> {},
     merged_entities |-> <<>>]

\* lines 38-68: one iteration of the for loop
SweepStep(c, entity) ==
    IF c.current_word = None THEN Opened(c, entity)
    ELSE IF Overlaps(entity, c.current_end) THEN
        LET grown ==
                IF Outscores(entity, c.current_score)
                THEN [c EXCEPT !.current_word = Some(@[1] \o <<" ">> \o entity.word),
                               !.current_end = entity.end,
                               !.current_type = entity.type,
                               !.current_score = entity.score]
                ELSE c
        IN  [grown EXCEPT !.current_explanation = @ \cup {entity.explanation}]
    ELSE Opened([c EXCEPT !.merged_entities = Append(@, Closed(c))], entity)

\* the cluster still open after the loop is never appended
SweepResultOpenDropped(c) == c.merged_entities

\* lines 70-81
SweepResult(c) ==
    IF c.current_word # None THEN Append(c.merged_entities, Closed(c))
    ELSE c.merged_entities

RECURSIVE SweepFrom(_, _)
SweepFrom(c, l) ==
    IF l = <<>> THEN c ELSE SweepFrom(SweepStep(c, Head(l)), Tail(l))

\* merge_entities as a function of its argument
MergeEntities(predictions) ==
    SweepResult(SweepFrom(SweepInit, SortPredictions(Flatten(predictions))))

(***************************************************************************)
(* merge_consecutive_entities                                              *)
(***************************************************************************)
\* adjacency taken to leave one character between the spans
FusableGap(entity, cur) == entity.type = cur.type /\ entity.start = cur.end + 1

\* line 94
Fusable(entity, cur) == entity.type = cur.type /\ entity.start = cur.end

\* a + b / 2
MeanScorePrecedence(a, b) == RatAdd(a, RatDiv(b, 2))

\* line 97
MeanScore(a, b) == RatDiv(RatAdd(a, b), 2)

\* lines 95-100
Fuse(cur, entity) ==
    [cur EXCEPT !.word = @ \o entity.word,
                !.end = entity.end,
                !.score = MeanScore(@, entity.score),
                !.explanation =
                    Join(SortedStrings(SplitSet(@, <<>>)
                                       \cup SplitSet(entity.explanation, <<>>)))]

(***************************************************************************)
(* The summarize_pii state machine                                         *)
(***************************************************************************)
Locals ==
    [current_word |-> current_word, current_start |-> current_start,
     current_end |-> current_end, current_type |-> current_type,
     current_score |-> current_score,
     current_explanation |-> current_explanation,
     merged_entities |-> merged_entities]

SetLocals(c) ==
    /\ current_word' = c.current_word
    /\ current_start' = c.current_start
    /\ current_end' = c.current_end
    /\ current_type' = c.current_type
    /\ current_score' = c.current_score
    /\ current_explanation' = c.current_explanation
    /\ merged_entities' = c.merged_entities

EmptyDict == <<>>

Idle ==
    /\ word_predictions = <<>>
    /\ flattened_predictions = <<>>
    /\ pos = 1
    /\ current_word = None /\ current_start = None /\ current_end = None
    /\ current_type = None /\ current_score = Zero
    /\ current_explanation = {}
    /\ folded = <<>>
    /\ current_entity = None
    /\ scan = 1
    /\ final_entities = <<>>

BatchIdle ==
    /\ batch_results = <<>>
    /\ item = 1
    /\ hit = 1
    /\ pii_scores = EmptyDict
    /\ pii_explanations = EmptyDict
    /\ output = <<>>

\* a call of summarize_pii
Init ==
    /\ pc = "normalize"
    /\ text \in Texts
    /\ presidio_results \in SeqsUpTo(WellFormed(text), MaxLen)
    /\ merged_entities = <<>>
    /\ Idle
    /\ BatchIdle

\* summarize_pii lines 111-121
Normalize ==
    /\ pc = "normalize"
    /\ word_predictions' = WordPredictions(presidio_results, text)
    /\ pc' = "flatten"
    /\ UNCHANGED <<inputVars, sweepVars, merged_entities, consVars, batchVars>>

\* merge_entities lines 16-35
FlattenSort ==
    /\ pc = "flatten"
    /\ flattened_predictions' = SortPredictions(Flatten(word_predictions))
    /\ SetLocals(SweepInit)
    /\ pos' = 1
    /\ folded' = <<>>
    /\ pc' = "sweep"
    /\ UNCHANGED <<inputVars, word_predictions, consVars, batchVars>>

\* merge_entities lines 37-68, one iteration
Sweep ==
    /\ pc = "sweep"
    /\ pos <= Len(flattened_predictions)
    /\ LET entity == flattened_predictions[pos]
       IN  /\ SetLocals(SweepStep(Locals, entity))
           /\ folded' =
                IF current_word # None /\ Overlaps(entity, current_end)
                THEN [folded EXCEPT ![Len(folded)] = Append(@, entity)]
                ELSE Append(folded, <<entity>>)
    /\ pos' = pos + 1
    /\ UNCHANGED <<pc, inputVars, word_predictions, flattened_predictions, consVars,
                   batchVars>>

\* merge_entities lines 70-81, summarize_pii line 123
Close ==
    /\ pc = "sweep"
    /\ pos > Len(flattened_predictions)
    /\ merged_entities' = SweepResult(Locals)
    /\ pc' = "consecutive"
    /\ UNCHANGED <<inputVars, word_predictions, sweepVars, consVars, batchVars>>

\* merge_consecutive_entities lines 88-91
ConsStart ==
    /\ pc = "consecutive"
    /\ IF merged_entities = <<>>
       THEN /\ pc' = "done"
            /\ UNCHANGED <<current_entity, scan>>
       ELSE /\ current_entity' = merged_entities[1]
            /\ scan' = 2
            /\ pc' = "scan"
    /\ final_entities' = <<>>
    /\ UNCHANGED <<inputVars, word_predictions, sweepVars, merged_entities,
                   batchVars>>

\* merge_consecutive_entities lines 92-103, one iteration
ConsScan ==
    /\ pc = "scan"
    /\ scan <= Len(merged_entities)
    /\ LET entity == merged_entities[scan]
       IN  IF Fusable(entity, current_entity)
           THEN /\ current_entity' = Fuse(current_entity, entity)
                /\ UNCHANGED final_entities
           ELSE /\ final_entities' = Append(final_entities, current_entity)
                /\ current_entity' = entity
    /\ scan' = scan + 1
    /\ UNCHANGED <<pc, inputVars, word_predictions, sweepVars, merged_entities,
                   batchVars>>

\* merge_consecutive_entities lines 104-105, summarize_pii lines 124-125
ConsFinish ==
    /\ pc = "scan"
    /\ scan > Len(merged_entities)
    /\ final_entities' = Append(final_entities, current_entity)
    /\ pc' = "done"
    /\ UNCHANGED <<inputVars, word_predictions, sweepVars, merged_entities,
                   current_entity, scan, batchVars>>

Next ==
    \/ Normalize
    \/ FlattenSort
    \/ Sweep
    \/ Close
    \/ ConsStart
    \/ ConsScan
    \/ ConsFinish

Spec == Init /\ [][Next]_vars

(***************************************************************************)
(* summarize_pii on an eight-character text, detections of scores 0.9, 0.7 *)
(***************************************************************************)
ScenarioText == <<"J", "a", "n", "e", " ", "D", "o", "e">>
SevenTenths == [num |-> 7, den |-> 10]
ScenarioSpans == {<<0, 5>>, <<3, 8>>, <<5, 8>>}

ScenarioResults ==
    {[start |-> sp[1], end |-> sp[2], entity_type |-> ty, score |-> sc,
      analysis_explanation |->
          [textual_explanation |->
              IF sc = NineTenths THEN <<"by NER">> ELSE <<"by regex">>]] :
        sp \in ScenarioSpans, ty \in EntityTypes, sc \in {NineTenths, SevenTenths}}

InitScenario ==
    /\ pc = "normalize"
    /\ text = ScenarioText
    /\ presidio_results \in SeqsUpTo(ScenarioResults, MaxLen)
    /\ merged_entities = <<>>
    /\ Idle
    /\ BatchIdle

SpecScenario == InitScenario /\ [][Next]_vars

(***************************************************************************)
(* merge_consecutive_entities called on its own, with any list of entries  *)
(***************************************************************************)
Entities(t) ==
    {Flatten(<<WordPrediction(r, t)>>)[1] : r \in WellFormed(t)}

InitConsecutive ==
    /\ pc = "consecutive"
    /\ text \in Texts
    /\ presidio_results = <<>>
    /\ merged_entities \in SeqsUpTo(Entities(text), MaxLen)
    /\ Idle
    /\ BatchIdle

NextConsecutive ==
    \/ ConsStart
    \/ ConsScan
    \/ ConsFinish

SpecConsecutive == InitConsecutive /\ [][NextConsecutive]_vars

(***************************************************************************)
(* summarize_pii_batch                                                     *)
(***************************************************************************)
\* where a detection of a batch sits: its group and its row in the group
Placements ==
    [group : 1..Len(Keys), row : 1..Len(Values),
     entity_type : EntityTypes, recognizer : Recognizers]

Result(h) ==
    [entity_type |-> h.entity_type,
     score |-> h.recognizer.score,
     analysis_explanation |->
         [textual_explanation |-> h.recognizer.textual_explanation]]

RECURSIVE RowResults(_, _, _)
RowResults(hits, g, r) ==
    IF hits = <<>> THEN <<>>
    ELSE (IF Head(hits).group = g /\ Head(hits).row = r
          THEN <<Result(Head(hits))>> ELSE <<>>)
         \o RowResults(Tail(hits), g, r)

\* the batch whose detections are `hits`, each in its group and row
Batch(hits) ==
    [g \in 1..Len(Keys) |->
        [key |-> Keys[g],
         value |-> Values,
         recognizer_results |->
             [r \in 1..Len(Values) |-> RowResults(hits, g, r)]]]

\* lines 143-144: the nested loops visit the rows' results in order
RECURSIVE Flat(_)
Flat(rows) == IF rows = <<>> THEN <<>> ELSE Head(rows) \o Flat(Tail(rows))

\* the count of a category already seen stays where it is
AddScoreCountKept(scores, pii_type, score) ==
    IF pii_type \in DOMAIN scores
    THEN [scores EXCEPT ![pii_type] =
              [total_score |-> RatAdd(@.total_score, score), count |-> @.count]]
    ELSE scores @@ (pii_type :> [total_score |-> score, count |-> 1])

\* lines 149-153
AddScore(scores, pii_type, score) ==
    IF pii_type \in DOMAIN scores
    THEN [scores EXCEPT ![pii_type] =
              [total_score |-> RatAdd(@.total_score, score),
               count |-> @.count + 1]]
    ELSE scores @@ (pii_type :> [total_score |-> score, count |-> 1])

\* lines 155-158
AddExplanation(explanations, pii_type, pii_explanation) ==
    IF pii_type \in DOMAIN explanations
    THEN [explanations EXCEPT ![pii_type] = @ \cup {pii_explanation}]
    ELSE explanations @@ (pii_type :> {pii_explanation})

\* lines 161-162
AvgScores(scores) ==
    [pii_type \in DOMAIN scores |->
        RatDiv(scores[pii_type].total_score, scores[pii_type].count)]

\* the orders in which a set can be iterated
Orderings(S) ==
    {o \in [1..Cardinality(S) -> S] : \A x \in S : \E k \in DOMAIN o : o[k] = x}

\* lines 164-165: ' and '.join over a set, whose iteration order is not fixed
CombinedExplanations(explanations) ==
    {f \in [DOMAIN explanations ->
                UNION {{Join(o) : o \in Orderings(explanations[ty])} :
                           ty \in DOMAIN explanations}] :
        \A ty \in DOMAIN explanations :
            f[ty] \in {Join(o) : o \in Orderings(explanations[ty])}}

InitBatch ==
    /\ pc = "batch"
    /\ text \in Texts
    /\ presidio_results = <<>>
    /\ merged_entities = <<>>
    /\ Idle
    /\ \E k \in 0..MaxHits :
          \E hits \in [1..k -> Placements] : batch_results = Batch(hits)
    /\ item = 1
    /\ hit = 1
    /\ pii_scores = EmptyDict
    /\ pii_explanations = EmptyDict
    /\ output = <<>>

sumVars == <<inputVars, word_predictions, sweepVars, merged_entities, consVars>>

\* lines 135-141
BatchBegin ==
    /\ pc = "batch"
    /\ item <= Len(batch_results)
    /\ pii_scores' = EmptyDict
    /\ pii_explanations' = EmptyDict
    /\ hit' = 1
    /\ pc' = "results"
    /\ UNCHANGED <<sumVars, batch_results, item, output>>

\* lines 143-158, one result
BatchAccumulate ==
    /\ pc = "results"
    /\ LET results == Flat(batch_results[item].recognizer_results)
       IN  /\ hit <= Len(results)
           /\ pii_scores' =
                AddScore(pii_scores, results[hit].entity_type, results[hit].score)
           /\ pii_explanations' =
                AddExplanation(pii_explanations, results[hit].entity_type,
                    results[hit].analysis_explanation.textual_explanation)
    /\ hit' = hit + 1
    /\ UNCHANGED <<pc, sumVars, batch_results, item, output>>

\* lines 161-172
BatchEmit ==
    /\ pc = "results"
    /\ hit > Len(Flat(batch_results[item].recognizer_results))
    /\ \E combined \in CombinedExplanations(pii_explanations) :
          output' = Append(output,
                        [column |-> batch_results[item].key,
                         n |-> Len(batch_results[item].value),
                         avg_scores |-> AvgScores(pii_scores),
                         explanation |-> combined])
    /\ item' = item + 1
    /\ pc' = "batch"
    /\ UNCHANGED <<sumVars, batch_results, hit, pii_scores, pii_explanations>>

\* line 174
BatchReturn ==
    /\ pc = "batch"
    /\ item > Len(batch_results)
    /\ pc' = "returned"
    /\ UNCHANGED <<sumVars, batchVars>>

NextBatch ==
    \/ BatchBegin
    \/ BatchAccumulate
    \/ BatchEmit
    \/ BatchReturn

SpecBatch == InitBatch /\ [][NextBatch]_vars

(***************************************************************************)
(* Properties                                                              *)
(***************************************************************************)
\* merge_entities has returned
Merged == pc \in {"consecutive", "scan", "done"}

\* the iteration about to run folds its record into the open cluster
FoldStep ==
    /\ pc = "sweep"
    /\ pos <= Len(flattened_predictions)
    /\ current_word # None
    /\ Overlaps(flattened_predictions[pos], current_end)

Covers(out, r) == out.start <= r.start /\ r.end <= out.end

IndexPermutations(n) ==
    {f \in [1..n -> 1..n] : \A a, b \in 1..n : f[a] = f[b] => a = b}

\* an output list presented as an input list of merge_entities
AsPredictions(l) ==
    [k \in 1..Len(l) |->
        [word |-> l[k].word, start |-> l[k].start, end |-> l[k].end,
         entity_type |-> l[k].type, score |-> l[k].score,
         analysis_explanation |-> [textual_explanation |-> l[k].explanation]]]

OrderedDisjoint(l) ==
    \A k \in 1..Len(l) :
        /\ l[k].start < l[k].end
        /\ k < Len(l) => l[k].end <= l[k + 1].start

\* C1: once merge_entities has returned, every input record's span lies
\* inside the span of exactly one output record.
C1_Completeness ==
    Merged =>
        \A k \in 1..Len(presidio_results) :
            Cardinality({m \in 1..Len(merged_entities) :
                            Covers(merged_entities[m], presidio_results[k])}) = 1

\* C2: the output of merge_entities, and the final summary, have start < end
\* in every entry and each entry's end <= the next entry's start.
C2_OrderedDisjoint ==
    /\ Merged => OrderedDisjoint(merged_entities)
    /\ pc = "done" => OrderedDisjoint(final_entities)

C2_Witness ==
    /\ pc = "done"
    /\ Len(presidio_results) = 3
    /\ Len(merged_entities) = 2
    /\ Len(final_entities) = 2
    /\ \E k \in 1..2 : Len(folded[k]) = 2

\* C3: in the output of merge_consecutive_entities, for any input list, no
\* two consecutive entries have the same type and next.start = previous.end.
C3_NonAdjacency ==
    pc = "done" =>
        \A k \in 1..(Len(final_entities) - 1) :
            ~(/\ final_entities[k + 1].type = final_entities[k].type
              /\ final_entities[k + 1].start = final_entities[k].end)

\* a run of three fusable entries has been fused into one
C3_Witness ==
    /\ pc = "done"
    /\ Len(merged_entities) = 3
    /\ \A k \in 1..2 : Fusable(merged_entities[k + 1], merged_entities[k])
    /\ Len(final_entities) = 1

IsScenario1(results) ==
    /\ Len(results) = 2
    /\ \E a, b \in 1..2 :
        /\ results[a].start = 0 /\ results[a].end = 5
        /\ results[a].score = NineTenths
        /\ results[b].start = 3 /\ results[b].end = 8
        /\ results[b].score = SevenTenths
        /\ results[a].entity_type = results[b].entity_type

\* C4: for the detections [0,5) score 0.9 and [3,8) score 0.7 of one
\* category, merge_entities yields one span [0,8) with score 0.9 and an
\* explanation containing both input explanations.
C4_Scenario1 ==
    (Merged /\ IsScenario1(presidio_results)) =>
        /\ Len(merged_entities) = 1
        /\ merged_entities[1].start = 0
        /\ merged_entities[1].end = 8
        /\ merged_entities[1].score = NineTenths
        /\ \A k \in 1..2 :
            presidio_results[k].analysis_explanation.textual_explanation
                \in SplitSet(merged_entities[1].explanation, <<>>)

\* C5: merge_entities applied to its own output, each output record given
\* back as an input record, returns that output unchanged.
C5_Idempotent ==
    Merged => MergeEntities(AsPredictions(merged_entities)) = merged_entities

C5_Witness ==
    /\ Merged
    /\ Len(merged_entities) = 2
    /\ Len(folded[1]) = 2
    /\ Cardinality(SplitSet(merged_entities[1].explanation, <<>>)) = 2
    /\ merged_entities[1].end = merged_entities[2].start

Permuted(l, f) == [k \in 1..Len(l) |-> l[f[k]]]

\* C6: merge_entities returns the same list for every permutation of its
\* input list.
C6_OrderIrrelevant ==
    Merged =>
        \A f \in IndexPermutations(Len(word_predictions)) :
            MergeEntities(Permuted(word_predictions, f)) = merged_entities

\* the scores of the detections of one category among a group's results
RECURSIVE ScoresOf(_, _)
ScoresOf(results, pii_type) ==
    IF results = <<>> THEN <<>>
    ELSE (IF Head(results).entity_type = pii_type
          THEN <<Head(results).score>> ELSE <<>>)
         \o ScoresOf(Tail(results), pii_type)

RECURSIVE RatSum(_)
RatSum(l) == IF l = <<>> THEN Zero ELSE RatAdd(Head(l), RatSum(Tail(l)))

TypesOf(results) == {results[k].entity_type : k \in 1..Len(results)}

\* C7: in every group's summary, avg_scores has exactly the categories
\* detected in that group, each with the sum of that group's scores of the
\* category divided by their number.
C7_BatchAverage ==
    pc = "returned" =>
        /\ Len(output) = Len(batch_results)
        /\ \A g \in 1..Len(batch_results) :
            LET results == Flat(batch_results[g].recognizer_results)
            IN  /\ DOMAIN output[g].avg_scores = TypesOf(results)
                /\ \A ty \in TypesOf(results) :
                    LET sc == ScoresOf(results, ty)
                    IN  output[g].avg_scores[ty].num * RatSum(sc).den * Len(sc)
                            = RatSum(sc).num * output[g].avg_scores[ty].den

\* one group has a category with scores 0.5 and 0.9 (average 0.7) and a
\* second category, the other group has detections of its own
C7_Witness ==
    /\ pc = "returned"
    /\ \E g, h \in 1..Len(batch_results) :
        /\ g # h
        /\ DOMAIN output[g].avg_scores = EntityTypes
        /\ \E ty \in EntityTypes :
            /\ Len(ScoresOf(Flat(batch_results[g].recognizer_results), ty)) = 2
            /\ output[g].avg_scores[ty] = SevenTenths
        /\ DOMAIN output[h].avg_scores # {}

\* C8: a step that folds a record into the open cluster leaves the
\* cluster's end greater than or equal to what it was.
C8_EndNeverShrinks == [][FoldStep => current_end' >= current_end]_vars

MaxScored(out, members) ==
    /\ \E k \in 1..Len(members) :
        members[k].score = out.score /\ members[k].type = out.type
    /\ \A k \in 1..Len(members) : ~RatGt(members[k].score, out.score)

\* a folded record that does not outscore the cluster adds its explanation
\* and changes nothing else
LowFoldKeeps ==
    (FoldStep /\ ~RatGt(flattened_predictions[pos].score, current_score)) =>
        /\ current_word' = current_word
        /\ current_start' = current_start
        /\ current_end' = current_end
        /\ current_type' = current_type
        /\ current_score' = current_score
        /\ current_explanation' =
            current_explanation \cup {flattened_predictions[pos].explanation}

\* C9: every output record has the maximum score of the records folded into
\* its cluster and the type of a folded record with that score; a folded
\* record scoring no more than the cluster changes only the explanation set.
C9_HighestScoreWins ==
    /\ [](Merged =>
            /\ Len(folded) = Len(merged_entities)
            /\ \A k \in 1..Len(merged_entities) :
                MaxScored(merged_entities[k], folded[k]))
    /\ [][LowFoldKeeps]_vars

\* a cluster took its score from a record folded in after the seed, and a
\* record with a tying score was folded in as well
C9_Witness ==
    /\ Merged
    /\ \E k \in 1..Len(merged_entities) :
        /\ Len(folded[k]) = 3
        /\ folded[k][1].score # merged_entities[k].score
        /\ folded[k][2].score = merged_entities[k].score
        /\ folded[k][3].score = merged_entities[k].score

AdjacentRun(l) ==
    \A k \in 1..(Len(l) - 1) :
        l[k + 1].type = l[k].type /\ l[k + 1].start = l[k].end

\* C10: two same-type records with next.start = current.end stay two after
\* merge_entities and become one entry in the summary: first start, second
\* end, words concatenated, score (s1 + s2) / 2; three such records give
\* ((s1 + s2) / 2 + s3) / 2.
C10_AdjacencyFusion ==
    LET l == flattened_predictions
    IN  (pc = "done" /\ Len(l) \in {2, 3} /\ AdjacentRun(l)) =>
            /\ Len(merged_entities) = Len(l)
            /\ \A k \in 1..Len(l) :
                /\ merged_entities[k].start = l[k].start
                /\ merged_entities[k].end = l[k].end
            /\ Len(final_entities) = 1
            /\ final_entities[1].start = l[1].start
            /\ final_entities[1].end = l[Len(l)].end
            /\ final_entities[1].type = l[1].type
            /\ Len(l) = 2 =>
                /\ final_entities[1].word = l[1].word \o l[2].word
                /\ final_entities[1].score
                    = RatDiv(RatAdd(l[1].score, l[2].score), 2)
            /\ Len(l) = 3 =>
                /\ final_entities[1].word = l[1].word \o l[2].word \o l[3].word
                /\ final_entities[1].score
                    = RatDiv(RatAdd(RatDiv(RatAdd(l[1].score, l[2].score), 2),
                                    l[3].score), 2)

\* three fused records whose pairwise fold differs from their overall mean
C10_Witness ==
    LET l == flattened_predictions
    IN  /\ pc = "done"
        /\ Len(l) = 3
        /\ AdjacentRun(l)
        /\ Len(final_entities) = 1
        /\ final_entities[1].score
            # RatDiv(RatAdd(RatAdd(l[1].score, l[2].score), l[3].score), 3)

=============================================================================
